---- MODULE Spec2Model ----
(***************************************************************************)
(* Model of khiemsens/websockets-scaling: the simple socket.io server      *)
(* (e2esimple/server.js, e2esimple/client.js), the clustered socket.io     *)
(* server with the Redis adapter (README "Step 1"), and the sticky-cookie  *)
(* reverse proxy configured in stack/docker-compose.yml.                   *)
(***************************************************************************)
EXTENDS Integers, Sequences, FiniteSets, TLC

\* Health ticks the cluster fires within the explored horizon.
MaxTicks == 2

\* Connections the simple server accepts within the explored horizon.
MaxAccepts == 3

\* The two replicas of the socket-server service (deploy.replicas: 2), named
\* as in the README's data workflow.
Nodes == {"server1", "server2"}

\* The two clients of the README's data workflow.
Clients == {"clientA", "clientB"}

\* "No node": a client that is not connected, a cookie that is not set.
NoNode == "none"

\* "No connection": the origin connection of a node-authored event.
NoConn == "none"

\* The simple server is one process, listening on socketPort.
SimpleServer == "localhost:5000"

VARIABLES
  up,        \* up[n]: the server process of replica n is running
  link,      \* link[n]: replica n's connection to Redis is established
  at,        \* at[c]: the server holding client c's connection, or NoNode
  cookie,    \* cookie[c]: the node the proxy's sticky cookie "io" names, or NoNode
  pc,        \* pc[c]: client c's message: "off" (not connected), "idle" (none in flight),
             \*        "sent" (in flight to the server), "done" (handled by the simple server)
  outq,      \* outq[c]: events the server has emitted to c's connection, not yet read by c
  received,  \* received[c]: events client c has read on its current connection
  ticks,     \* ticks[n]: health ticks replica n has fired
  inbox,     \* inbox[n]: envelopes Redis has pushed to replica n, not yet handled
  offline,   \* offline[n]: envelopes replica n's Redis client holds while disconnected
  accepted,  \* connections the simple server has accepted
  registry,  \* the Connection Registry of one node: connection id -> subscribed topics
  lastOp,    \* the last registry operation and what it returned
  trav,      \* the forEachSubscriber traversal in progress
  nodeHealth, \* the health state of the registry's node
  reachable, \* the Redis server can be reached
  retryDelay, \* retryDelay[n]: the delay before the next reconnect attempt of n's adapter, in ms
  intervalOffset, \* intervalOffset[n]: the period of replica n's health timer, in ms
  clock,     \* the time since the replicas started, in ms
  due        \* due[n]: the time at which replica n's health timer fires next

\* The Connection Registry's state.
regVars == <<registry, lastOp, trav, nodeHealth>>

\* The adapter's reconnect schedule.
backoffVars == <<reachable, retryDelay>>

\* The health timers and the clock.
timerVars == <<intervalOffset, clock, due>>

vars == <<up, link, at, cookie, pc, outq, received, ticks, inbox, offline, accepted, regVars,
          backoffVars, timerVars>>

\* ------------------------------------------------------------------------
\* Events

\* log0 of node n: the template `I am the host: ${privateIp}. I am healty.`,
\* as its parts.
Log0(n) == <<"I am the host: ", n, ". I am healty.">>

\* Variant: the payload does not name the host.
HealthEventAnonymous(n, k) ==
  [name |-> "okok", origin |-> n, conn |-> NoConn, seq |-> k, payload |-> <<"I am healty.">>]

\* The event of the k-th health tick of node n: io.emit("okok", log0).  The
\* adapter stamps the envelope with the emitting server; k identifies the
\* emission.
HealthEvent(n, k) ==
  [name |-> "okok", origin |-> n, conn |-> NoConn, seq |-> k, payload |-> Log0(n)]

\* The event of the simple server's k-th accepted connection:
\* io.emit("broadcast", 'A broadcast message').
BroadcastEvent(k) ==
  [name |-> "broadcast", origin |-> SimpleServer, conn |-> NoConn, seq |-> k,
   payload |-> <<"A broadcast message">>]

RECURSIVE SumOver(_, _)
SumOver(f, S) ==
  IF S = {} THEN 0
  ELSE LET x == CHOOSE y \in S : TRUE IN f[x] + SumOver(f, S \ {x})

\* Health ticks fired so far by all replicas.
TotalTicks == SumOver(ticks, Nodes)

\* The configuration option OUTBOUND_QUEUE_LIMIT of the specification; no
\* source file reads it.
OUTBOUND_QUEUE_LIMIT == 2

\* ------------------------------------------------------------------------
\* socket.io: io.emit on a server reaches every connection of that server.

\* Variant: a connection whose queue is at the limit is not given the event.
LocalBroadcastDropNewest(q, a, n, e) ==
  [c \in Clients |->
     IF a[c] = n /\ Len(q[c]) < OUTBOUND_QUEUE_LIMIT THEN Append(q[c], e) ELSE q[c]]

\* Variant: the event is put ahead of what is queued.
LocalBroadcastPrepend(q, a, n, e) ==
  [c \in Clients |-> IF a[c] = n THEN <<e>> \o q[c] ELSE q[c]]

LocalBroadcast(q, a, n, e) ==
  [c \in Clients |-> IF a[c] = n THEN Append(q[c], e) ELSE q[c]]

\* Variant: the newest envelope overtakes the ones still in flight.
PublishToUnordered(ib, lk, e) ==
  [m \in Nodes |-> IF up[m] /\ lk[m] THEN <<e>> \o ib[m] ELSE ib[m]]

\* Redis pub/sub: a published envelope is pushed, in publish order, to every
\* replica whose subscription is established, the publisher's own included.
PublishTo(ib, lk, e) ==
  [m \in Nodes |-> IF up[m] /\ lk[m] THEN Append(ib[m], e) ELSE ib[m]]

RECURSIVE PublishAll(_, _, _)
PublishAll(ib, lk, es) ==
  IF es = <<>> THEN ib ELSE PublishAll(PublishTo(ib, lk, Head(es)), lk, Tail(es))

\* ------------------------------------------------------------------------
\* The reverse proxy: sticky cookie "io" in front of the replicas.

\* Variant: no stickiness, every request is load-balanced afresh.
RouteNotSticky(c) == {n \in Nodes : up[n]}

\* The replicas a request of client c may be routed to: the one its cookie
\* names while that one is reachable, any reachable replica otherwise.
Route(c) ==
  IF cookie[c] # NoNode /\ up[cookie[c]]
  THEN {cookie[c]}
  ELSE {n \in Nodes : up[n]}

\* The configuration option RECONNECT_BACKOFF_MAX_MS of the specification,
\* the ceiling of the reconnect delay; no source file reads it.
RECONNECT_BACKOFF_MAX_MS == 100000

\* The delay before the first reconnect attempt.
RECONNECT_BACKOFF_MIN_MS == 1000

\* The values of randomOffset: Math.floor(Math.random() * 10).
RandomOffsets == 0..9

\* intervalOffset for a value r of randomOffset: (30 + r) * Math.pow(10, 3).
IntervalOffset(r) == (30 + r) * 1000

\* The topics of the registry: the event names the servers emit.
Topics == {"broadcast", "okok"}

\* The registry's entry of an identifier it does not know.
NotRegistered == [registered |-> FALSE, topics |-> {}]

\* No traversal in progress.
IdleTraversal ==
  [phase |-> "idle", topic |-> "none", snapshot |-> {}, todo |-> {},
   cur |-> NoConn, visits |-> [id \in Clients |-> 0], stable |-> {}]

\* The servers are started, Redis is reachable, no client is connected.
BaseInit ==
  /\ up = [n \in Nodes |-> TRUE]
  /\ link = [n \in Nodes |-> TRUE]
  /\ at = [c \in Clients |-> NoNode]
  /\ cookie = [c \in Clients |-> NoNode]
  /\ pc = [c \in Clients |-> "off"]
  /\ outq = [c \in Clients |-> <<>>]
  /\ received = [c \in Clients |-> <<>>]
  /\ ticks = [n \in Nodes |-> 0]
  /\ inbox = [n \in Nodes |-> <<>>]
  /\ offline = [n \in Nodes |-> <<>>]
  /\ accepted = 0
  /\ registry = [id \in Clients |-> NotRegistered]
  /\ lastOp = [op |-> "none", id |-> NoConn, result |-> "none"]
  /\ trav = IdleTraversal
  /\ nodeHealth = "healthy"
  /\ reachable = TRUE
  /\ retryDelay = [n \in Nodes |-> RECONNECT_BACKOFF_MIN_MS]
  /\ clock = 0

\* The start of the specifications that abstract from time: they leave the
\* clock alone and let a health timer fire at any moment, which covers every
\* period and every difference between the replicas' start times.
Init ==
  /\ BaseInit
  /\ intervalOffset = [n \in Nodes |-> IntervalOffset(0)]
  /\ due = intervalOffset

\* The start of the timed specification: every replica has drawn its
\* randomOffset and armed its timer.
TimerInit ==
  /\ BaseInit
  /\ \E r \in [Nodes -> RandomOffsets] :
       intervalOffset = [n \in Nodes |-> IntervalOffset(r[n])]
  /\ due = intervalOffset

\* ------------------------------------------------------------------------
\* Clients (e2esimple/client.js; README Step 5)

\* io(url) of the README's client: it opens a connection through the proxy,
\* which routes it and sets the cookie; the server's 'connection' handler
\* only logs.
Connect(c) ==
  /\ at[c] = NoNode
  /\ \E n \in Route(c) :
       /\ at' = [at EXCEPT ![c] = n]
       /\ cookie' = [cookie EXCEPT ![c] = n]
  /\ pc' = [pc EXCEPT ![c] = "idle"]
  /\ outq' = [outq EXCEPT ![c] = <<>>]
  /\ received' = [received EXCEPT ![c] = <<>>]
  /\ UNCHANGED <<regVars, backoffVars, timerVars, up, link, ticks, inbox, offline, accepted>>

\* client.emit: a client of the cluster sends a message to its server.
ClientEmit(c) ==
  /\ at[c] \in Nodes
  /\ pc[c] = "idle"
  /\ pc' = [pc EXCEPT ![c] = "sent"]
  /\ UNCHANGED <<regVars, backoffVars, timerVars, up, link, at, cookie, outq, received, ticks, inbox, offline, accepted>>

\* The client reads the next event of its connection.
ClientReceive(c) ==
  /\ at[c] # NoNode
  /\ outq[c] # <<>>
  /\ received' = [received EXCEPT ![c] = Append(@, Head(outq[c]))]
  /\ outq' = [outq EXCEPT ![c] = Tail(@)]
  /\ UNCHANGED <<regVars, backoffVars, timerVars, up, link, at, cookie, pc, ticks, inbox, offline, accepted>>

\* The connection closes (either side); its queue goes with it.
Disconnect(c) ==
  /\ at[c] # NoNode
  /\ at' = [at EXCEPT ![c] = NoNode]
  /\ pc' = [pc EXCEPT ![c] = "off"]
  /\ outq' = [outq EXCEPT ![c] = <<>>]
  /\ received' = [received EXCEPT ![c] = <<>>]
  /\ UNCHANGED <<regVars, backoffVars, timerVars, up, link, cookie, ticks, inbox, offline, accepted>>

\* ------------------------------------------------------------------------
\* The clustered server (README Step 1)

\* The envelope a server would make of the message of connection c.
MessageEvent(n, c) ==
  [name |-> "test000", origin |-> n, conn |-> c, seq |-> 1, payload |-> <<"a message">>]

\* Variant: the handler emits the message to the server's connections.
OnTest000Broadcasts(c) ==
  /\ at[c] \in Nodes
  /\ pc[c] = "sent"
  /\ pc' = [pc EXCEPT ![c] = "idle"]
  /\ outq' = LocalBroadcast(outq, at, at[c], MessageEvent(at[c], c))
  /\ UNCHANGED <<regVars, backoffVars, timerVars, up, link, at, cookie, received, ticks, inbox, offline, accepted>>

\* client.on('test000', ...): the handler logs the message and returns.
OnTest000(c) ==
  /\ at[c] \in Nodes
  /\ pc[c] = "sent"
  /\ pc' = [pc EXCEPT ![c] = "idle"]
  /\ UNCHANGED <<regVars, backoffVars, timerVars, up, link, at, cookie, outq, received, ticks, inbox, offline, accepted>>

\* What the Redis client of a disconnected replica does with a publish: it
\* holds the envelope for the reconnect, or the envelope is lost.
OfflinePublish(n, e) ==
  \/ /\ offline' = [offline EXCEPT ![n] = Append(@, e)]
     /\ UNCHANGED inbox
  \/ UNCHANGED <<inbox, offline>>

\* Variant: the emit waits until Redis has taken the envelope.
TickEmitWaitsForRedis(n) ==
  /\ up[n]
  /\ link[n]
  /\ TotalTicks < MaxTicks
  /\ LET e == HealthEvent(n, ticks[n] + 1) IN
       /\ ticks' = [ticks EXCEPT ![n] = @ + 1]
       /\ outq' = LocalBroadcast(outq, at, n, e)
       /\ inbox' = PublishTo(inbox, link, e)
  /\ UNCHANGED <<regVars, backoffVars, up, link, at, cookie, pc, received, offline, accepted>>

\* The timer's callback, () => { ...; io.emit("okok", log0) }: the adapter
\* publishes the event for the other replicas and emits it to the local
\* connections.
TickEmit(n) ==
  /\ up[n]
  /\ TotalTicks < MaxTicks
  /\ LET e == HealthEvent(n, ticks[n] + 1) IN
       /\ ticks' = [ticks EXCEPT ![n] = @ + 1]
       /\ outq' = LocalBroadcast(outq, at, n, e)
       /\ IF link[n]
          THEN inbox' = PublishTo(inbox, link, e) /\ UNCHANGED offline
          ELSE OfflinePublish(n, e)
  /\ UNCHANGED <<regVars, backoffVars, up, link, at, cookie, pc, received, accepted>>

\* setInterval(callback, intervalOffset), time left out: the timer fires.
Tick(n) ==
  /\ TickEmit(n)
  /\ UNCHANGED timerVars

\* Variant: the delay to the next tick is drawn afresh at every tick.
TimedTickRedraws(n) ==
  /\ clock = due[n]
  /\ TickEmit(n)
  /\ \E r \in RandomOffsets : due' = [due EXCEPT ![n] = clock + IntervalOffset(r)]
  /\ UNCHANGED <<intervalOffset, clock>>

\* setInterval(callback, intervalOffset): the timer fires when its time has
\* come and is due again intervalOffset later.
TimedTick(n) ==
  /\ clock = due[n]
  /\ TickEmit(n)
  /\ due' = [due EXCEPT ![n] = clock + intervalOffset[n]]
  /\ UNCHANGED <<intervalOffset, clock>>

\* The earliest time in the set S of times.
Earliest(S) == CHOOSE t \in S : \A u \in S : t <= u

\* Time passes until the next timer of a running replica is due; a timer
\* that is due fires first.
AdvanceClock ==
  /\ TotalTicks < MaxTicks
  /\ \E n \in Nodes : up[n]
  /\ \A n \in Nodes : up[n] => clock < due[n]
  /\ clock' = Earliest({due[n] : n \in {m \in Nodes : up[m]}})
  /\ UNCHANGED <<regVars, backoffVars, intervalOffset, due, up, link, at, cookie, pc, outq,
                 received, ticks, inbox, offline, accepted>>

\* Variant: the handler forwards nothing to the local connections.
OnBackplaneForwardsNothing(n, e) == outq

\* Variant: the relaying replica stamps the envelope as its own.
OnBackplaneRestamps(n, e) ==
  IF e.origin = n THEN outq ELSE LocalBroadcast(outq, at, n, [e EXCEPT !.origin = n])

\* Variant: the handler does not recognise its own envelopes.
OnBackplaneRedelivers(n, e) == LocalBroadcast(outq, at, n, e)

\* The adapter's subscription handler: an envelope of this replica's own is
\* ignored; an envelope of another replica is emitted to the local
\* connections.
OnBackplane(n, e) ==
  IF e.origin = n THEN outq ELSE LocalBroadcast(outq, at, n, e)

BackplaneReceive(n) ==
  /\ up[n]
  /\ inbox[n] # <<>>
  /\ outq' = OnBackplane(n, Head(inbox[n]))
  /\ inbox' = [inbox EXCEPT ![n] = Tail(@)]
  /\ UNCHANGED <<regVars, backoffVars, timerVars, up, link, at, cookie, pc, received, ticks, offline, accepted>>

\* The replica loses its connection to Redis.
LinkDown(n) ==
  /\ link[n]
  /\ link' = [link EXCEPT ![n] = FALSE]
  /\ UNCHANGED <<regVars, backoffVars, timerVars, up, at, cookie, pc, outq, received, ticks, inbox, offline, accepted>>

\* Variant: the reconnect sends what the client held and goes on holding it.
LinkUpKeepsHeld(n) ==
  /\ ~link[n]
  /\ link' = [link EXCEPT ![n] = TRUE]
  /\ inbox' = PublishAll(inbox, link', offline[n])
  /\ UNCHANGED <<regVars, backoffVars, timerVars, up, at, cookie, pc, outq, received, ticks, offline, accepted>>

\* The replica's Redis client reconnects and sends what it held.
LinkUp(n) ==
  /\ ~link[n]
  /\ link' = [link EXCEPT ![n] = TRUE]
  /\ inbox' = PublishAll(inbox, link', offline[n])
  /\ offline' = [offline EXCEPT ![n] = <<>>]
  /\ UNCHANGED <<regVars, backoffVars, timerVars, up, at, cookie, pc, outq, received, ticks, accepted>>

\* Variant: the process stops and its connections stay as they were.
NodeFailKeepsConnections(n) ==
  /\ up[n]
  /\ up' = [up EXCEPT ![n] = FALSE]
  /\ inbox' = [inbox EXCEPT ![n] = <<>>]
  /\ offline' = [offline EXCEPT ![n] = <<>>]
  /\ UNCHANGED <<regVars, backoffVars, timerVars, link, at, cookie, pc, outq, received, ticks, accepted>>

\* The server process of a replica stops: its connections close and what it
\* held is gone.  The proxy's cookies are the clients', and stay.
NodeFail(n) ==
  /\ up[n]
  /\ up' = [up EXCEPT ![n] = FALSE]
  /\ at' = [c \in Clients |-> IF at[c] = n THEN NoNode ELSE at[c]]
  /\ pc' = [c \in Clients |-> IF at[c] = n THEN "off" ELSE pc[c]]
  /\ outq' = [c \in Clients |-> IF at[c] = n THEN <<>> ELSE outq[c]]
  /\ received' = [c \in Clients |-> IF at[c] = n THEN <<>> ELSE received[c]]
  /\ inbox' = [inbox EXCEPT ![n] = <<>>]
  /\ offline' = [offline EXCEPT ![n] = <<>>]
  /\ UNCHANGED <<regVars, backoffVars, timerVars, link, cookie, ticks, accepted>>

\* The replica is started again (restart policy of the stack).
NodeRecover(n) ==
  /\ ~up[n]
  /\ up' = [up EXCEPT ![n] = TRUE]
  /\ UNCHANGED <<regVars, backoffVars, timerVars, link, at, cookie, pc, outq, received, ticks, inbox, offline, accepted>>

\* ------------------------------------------------------------------------
\* The simple server (e2esimple/server.js)

\* Variant: the event goes to every connection but the new one
\* (client.broadcast.emit).
SimpleConnectExcludesNew(c) ==
  /\ at[c] = NoNode
  /\ accepted < MaxAccepts
  /\ accepted' = accepted + 1
  /\ at' = [at EXCEPT ![c] = SimpleServer]
  /\ pc' = [pc EXCEPT ![c] = "sent"]
  /\ received' = [received EXCEPT ![c] = <<>>]
  /\ outq' = LocalBroadcast([outq EXCEPT ![c] = <<>>], at, SimpleServer,
                            BroadcastEvent(accepted + 1))
  /\ UNCHANGED <<regVars, backoffVars, timerVars, up, link, cookie, ticks, inbox, offline>>

\* io.on('connection', ...): the server logs, registers the 'testMsg'
\* handler and emits "broadcast" to every connection it holds, the new one
\* included.  The client's 'connect' handler then emits 'testMsg'.
SimpleConnect(c) ==
  /\ at[c] = NoNode
  /\ accepted < MaxAccepts
  /\ accepted' = accepted + 1
  /\ at' = [at EXCEPT ![c] = SimpleServer]
  /\ pc' = [pc EXCEPT ![c] = "sent"]
  /\ received' = [received EXCEPT ![c] = <<>>]
  /\ outq' = LocalBroadcast([outq EXCEPT ![c] = <<>>], at', SimpleServer,
                            BroadcastEvent(accepted + 1))
  /\ UNCHANGED <<regVars, backoffVars, timerVars, up, link, cookie, ticks, inbox, offline>>

\* client.on('testMsg', ...): the handler logs the message and returns.
OnTestMsg(c) ==
  /\ at[c] = SimpleServer
  /\ pc[c] = "sent"
  /\ pc' = [pc EXCEPT ![c] = "done"]
  /\ UNCHANGED <<regVars, backoffVars, timerVars, up, link, at, cookie, outq, received, ticks, inbox, offline, accepted>>

\* ------------------------------------------------------------------------
\* The Connection Registry (specification 4.1 and 5; socket.io keeps the
\* connections of the servers above, and no source file implements these
\* operations)

\* Everything but the registry.
netVars == <<up, link, at, cookie, pc, outq, received, ticks, inbox, offline, accepted,
            backoffVars, timerVars>>

\* Connection id is registered in r and subscribed to topic t.
Subscribed(r, id, t) == r[id].registered /\ t \in r[id].topics

\* The traversal after a mutation of id that turns the registry into r: id
\* no longer counts as registered and subscribed throughout.
Touch(r, id) ==
  IF trav.phase = "running" /\ Subscribed(r, id, trav.topic) # Subscribed(registry, id, trav.topic)
  THEN [trav EXCEPT !.stable = @ \ {id}]
  ELSE trav

\* A mutation of id waits for the visit of id in progress (the lock is per
\* connection identifier).
Unlocked(id) == trav.cur # id

\* register(connection): a newly accepted connection, subscribed to nothing.
Register(id) ==
  /\ Unlocked(id)
  /\ ~registry[id].registered
  /\ registry' = [registry EXCEPT ![id] = [registered |-> TRUE, topics |-> {}]]
  /\ lastOp' = [op |-> "register", id |-> id, result |-> "ok"]
  /\ trav' = Touch(registry', id)
  /\ UNCHANGED <<netVars, nodeHealth>>

\* Variant: unregister does not wait for the visit in progress.
UnregisterUnlocked(id) ==
  /\ IF registry[id].registered
     THEN /\ registry' = [registry EXCEPT ![id] = NotRegistered]
          /\ lastOp' = [op |-> "unregister", id |-> id, result |-> "ok"]
     ELSE /\ lastOp' = [op |-> "unregister", id |-> id, result |-> "NotFound"]
          /\ UNCHANGED registry
  /\ trav' = Touch(registry', id)
  /\ UNCHANGED <<netVars, nodeHealth>>

\* unregister(connectionId)
Unregister(id) ==
  /\ Unlocked(id)
  /\ IF registry[id].registered
     THEN /\ registry' = [registry EXCEPT ![id] = NotRegistered]
          /\ lastOp' = [op |-> "unregister", id |-> id, result |-> "ok"]
     ELSE /\ lastOp' = [op |-> "unregister", id |-> id, result |-> "NotFound"]
          /\ UNCHANGED registry
  /\ trav' = Touch(registry', id)
  /\ UNCHANGED <<netVars, nodeHealth>>

\* Variant: subscribing an unknown identifier creates its entry.
SubscribeCreatesEntry(id, t) ==
  /\ Unlocked(id)
  /\ registry' = [registry EXCEPT ![id] = [registered |-> TRUE, topics |-> @.topics \cup {t}]]
  /\ lastOp' = [op |-> "subscribe", id |-> id, result |-> "ok"]
  /\ trav' = Touch(registry', id)
  /\ UNCHANGED <<netVars, nodeHealth>>

\* subscribe(connectionId, topic)
Subscribe(id, t) ==
  /\ Unlocked(id)
  /\ IF registry[id].registered
     THEN /\ registry' = [registry EXCEPT ![id].topics = @ \cup {t}]
          /\ lastOp' = [op |-> "subscribe", id |-> id, result |-> "ok"]
     ELSE /\ lastOp' = [op |-> "subscribe", id |-> id, result |-> "NotFound"]
          /\ UNCHANGED registry
  /\ trav' = Touch(registry', id)
  /\ UNCHANGED <<netVars, nodeHealth>>

\* unsubscribe(connectionId, topic)
Unsubscribe(id, t) ==
  /\ Unlocked(id)
  /\ IF registry[id].registered
     THEN /\ registry' = [registry EXCEPT ![id].topics = @ \ {t}]
          /\ lastOp' = [op |-> "unsubscribe", id |-> id, result |-> "ok"]
     ELSE /\ lastOp' = [op |-> "unsubscribe", id |-> id, result |-> "NotFound"]
          /\ UNCHANGED registry
  /\ trav' = Touch(registry', id)
  /\ UNCHANGED <<netVars, nodeHealth>>

\* forEachSubscriber(topic, fn) starts: it takes the connections registered
\* and subscribed to the topic now.
ForEachBegin(t) ==
  /\ trav.phase \in {"idle", "done"}
  /\ LET now == {id \in Clients : Subscribed(registry, id, t)} IN
       trav' = [IdleTraversal EXCEPT !.phase = "running", !.topic = t,
                                     !.snapshot = now, !.todo = now, !.stable = now]
  /\ UNCHANGED <<netVars, registry, lastOp, nodeHealth>>

\* The traversal turns to the next connection: it locks it and starts fn on
\* it if it is still registered and subscribed, and skips it otherwise.
VisitBegin(id) ==
  /\ trav.phase = "running"
  /\ trav.cur = NoConn
  /\ id \in trav.todo
  /\ trav' = [trav EXCEPT !.todo = @ \ {id},
                          !.cur = IF Subscribed(registry, id, trav.topic) THEN id ELSE NoConn]
  /\ UNCHANGED <<netVars, registry, lastOp, nodeHealth>>

\* fn returns: the connection is visited, and unlocked.
VisitEnd ==
  /\ trav.phase = "running"
  /\ trav.cur # NoConn
  /\ trav' = [trav EXCEPT !.visits[trav.cur] = @ + 1, !.cur = NoConn]
  /\ UNCHANGED <<netVars, registry, lastOp, nodeHealth>>

\* forEachSubscriber returns.
ForEachEnd ==
  /\ trav.phase = "running"
  /\ trav.cur = NoConn
  /\ trav.todo = {}
  /\ trav' = [trav EXCEPT !.phase = "done"]
  /\ UNCHANGED <<netVars, registry, lastOp, nodeHealth>>

\* ------------------------------------------------------------------------
\* The adapter's reconnect schedule (specification 4.2, 5 and 7; the source
\* passes no retry option to the Redis client, whose code is not part of the
\* repository)

\* The smaller of two delays.
MinDelay(a, b) == IF a <= b THEN a ELSE b

\* The Redis server becomes unreachable: every adapter loses its
\* subscription and schedules its first reconnect attempt.
MediumDown ==
  /\ reachable
  /\ reachable' = FALSE
  /\ link' = [n \in Nodes |-> FALSE]
  /\ retryDelay' = [n \in Nodes |-> RECONNECT_BACKOFF_MIN_MS]
  /\ UNCHANGED <<regVars, timerVars, up, at, cookie, pc, outq, received, ticks, inbox,
                 offline, accepted>>

\* The Redis server can be reached again.
MediumUp ==
  /\ ~reachable
  /\ reachable' = TRUE
  /\ UNCHANGED <<regVars, timerVars, retryDelay, up, link, at, cookie, pc, outq, received,
                 ticks, inbox, offline, accepted>>

\* Variant: the adapter stops retrying once the delay has reached the ceiling.
RetryGivesUpAtCeiling(n) ==
  /\ ~link[n]
  /\ retryDelay[n] < RECONNECT_BACKOFF_MAX_MS
  /\ IF reachable
     THEN /\ link' = [link EXCEPT ![n] = TRUE]
          /\ inbox' = PublishAll(inbox, link', offline[n])
          /\ offline' = [offline EXCEPT ![n] = <<>>]
          /\ retryDelay' = [retryDelay EXCEPT ![n] = RECONNECT_BACKOFF_MIN_MS]
     ELSE /\ retryDelay' = [retryDelay EXCEPT ![n] = MinDelay(2 * @, RECONNECT_BACKOFF_MAX_MS)]
          /\ UNCHANGED <<link, inbox, offline>>
  /\ UNCHANGED <<regVars, timerVars, reachable, up, at, cookie, pc, outq, received, ticks,
                 accepted>>

\* The delay of adapter n has passed and it tries to subscribe again: it
\* succeeds if Redis can be reached, and otherwise doubles its delay, up to
\* the ceiling.
Retry(n) ==
  /\ ~link[n]
  /\ IF reachable
     THEN /\ link' = [link EXCEPT ![n] = TRUE]
          /\ inbox' = PublishAll(inbox, link', offline[n])
          /\ offline' = [offline EXCEPT ![n] = <<>>]
          /\ retryDelay' = [retryDelay EXCEPT ![n] = RECONNECT_BACKOFF_MIN_MS]
     ELSE /\ retryDelay' = [retryDelay EXCEPT ![n] = MinDelay(2 * @, RECONNECT_BACKOFF_MAX_MS)]
          /\ UNCHANGED <<link, inbox, offline>>
  /\ UNCHANGED <<regVars, timerVars, reachable, up, at, cookie, pc, outq, received, ticks,
                 accepted>>

\* ------------------------------------------------------------------------
\* Specifications

\* The cluster: two replicas behind the proxy, sharing the Redis backplane.
Next ==
  \/ \E c \in Clients : Connect(c)
  \/ \E c \in Clients : ClientEmit(c)
  \/ \E c \in Clients : ClientReceive(c)
  \/ \E c \in Clients : Disconnect(c)
  \/ \E c \in Clients : OnTest000(c)
  \/ \E n \in Nodes : Tick(n)
  \/ \E n \in Nodes : BackplaneReceive(n)
  \/ \E n \in Nodes : LinkDown(n)
  \/ \E n \in Nodes : LinkUp(n)

Spec == Init /\ [][Next]_vars

\* The cluster while every replica stays connected to Redis, with the
\* README's clients, which only listen.  Node's event loop runs every pending
\* handler, and a connected client reads what its connection delivers.
HealthyNext ==
  \/ \E c \in Clients : Connect(c)
  \/ \E c \in Clients : ClientReceive(c)
  \/ \E c \in Clients : Disconnect(c)
  \/ \E n \in Nodes : Tick(n)
  \/ \E n \in Nodes : BackplaneReceive(n)

Fairness ==
  /\ \A c \in Clients : WF_vars(ClientReceive(c))
  /\ \A c \in Clients : WF_vars(OnTest000(c))
  /\ \A n \in Nodes : WF_vars(BackplaneReceive(n))

FairSpec == Init /\ [][HealthyNext]_vars /\ Fairness

\* The cluster with the README's clients, which only listen, and with Redis
\* outages.
OutageNext ==
  \/ HealthyNext
  \/ \E n \in Nodes : LinkDown(n)
  \/ \E n \in Nodes : LinkUp(n)

OutageSpec == Init /\ [][OutageNext]_vars

\* The cluster with clients that send messages and with Redis outages,
\* under the same scheduling.
DegradedFairSpec == Init /\ [][Next]_vars /\ Fairness

\* The proxy and the replicas' processes: routing under node failures.
RouterNext ==
  \/ \E c \in Clients : Connect(c)
  \/ \E c \in Clients : ClientEmit(c)
  \/ \E c \in Clients : ClientReceive(c)
  \/ \E c \in Clients : Disconnect(c)
  \/ \E c \in Clients : OnTest000(c)
  \/ \E n \in Nodes : Tick(n)
  \/ \E n \in Nodes : BackplaneReceive(n)
  \/ \E n \in Nodes : NodeFail(n)
  \/ \E n \in Nodes : NodeRecover(n)

RouterSpec == Init /\ [][RouterNext]_vars

\* The simple server and its clients.
SimpleNext ==
  \/ \E c \in Clients : SimpleConnect(c)
  \/ \E c \in Clients : ClientReceive(c)
  \/ \E c \in Clients : Disconnect(c)
  \/ \E c \in Clients : OnTestMsg(c)

SimpleSpec == Init /\ [][SimpleNext]_vars

\* The adapters' reconnect schedules while Redis comes and goes; a delay that
\* has been scheduled passes.
BackoffNext ==
  \/ MediumDown
  \/ MediumUp
  \/ \E n \in Nodes : Retry(n)

BackoffSpec == Init /\ [][BackoffNext]_vars /\ \A n \in Nodes : WF_vars(Retry(n))

\* The replicas' health timers on the clock, connecting clients, and
\* replicas that stop (and their timers with them).
TimerNext ==
  \/ \E n \in Nodes : TimedTick(n)
  \/ AdvanceClock
  \/ \E c \in Clients : Connect(c)
  \/ \E n \in Nodes : NodeFail(n)

TimerSpec == TimerInit /\ [][TimerNext]_vars

\* Both deployments side by side: a client connects to the cluster or to
\* the simple server, and sends its message.  The replicas emit their health
\* events; what Redis relays stays in flight.
ServersNext ==
  \/ \E c \in Clients : Connect(c)
  \/ \E c \in Clients : ClientEmit(c)
  \/ \E c \in Clients : OnTest000(c)
  \/ \E c \in Clients : SimpleConnect(c)
  \/ \E c \in Clients : OnTestMsg(c)
  \/ \E c \in Clients : ClientReceive(c)
  \/ \E c \in Clients : Disconnect(c)
  \/ \E n \in Nodes : Tick(n)

ServersSpec == Init /\ [][ServersNext]_vars

\* The Connection Registry of one node under concurrent callers.
RegistryNext ==
  \/ \E id \in Clients : Register(id)
  \/ \E id \in Clients : Unregister(id)
  \/ \E id \in Clients : \E t \in Topics : Subscribe(id, t)
  \/ \E id \in Clients : \E t \in Topics : Unsubscribe(id, t)
  \/ \E t \in Topics : ForEachBegin(t)
  \/ \E id \in Clients : VisitBegin(id)
  \/ VisitEnd
  \/ ForEachEnd

RegistrySpec == Init /\ [][RegistryNext]_vars

\* ------------------------------------------------------------------------
\* Properties

\* Everything the server has emitted to client c's current connection.
Delivered(c) == received[c] \o outq[c]

\* Client d has read a copy of the message client c sent.
HasMsgFrom(d, c) == \E i \in DOMAIN received[d] : received[d][i].conn = c

\* The copies of client c's own message emitted to c's connection.
OwnCopies(c) == Cardinality({i \in DOMAIN Delivered(c) : Delivered(c)[i].conn = c})

\* C1 (fan-out completeness): a message a client sent to its node is
\* eventually read by every other client that was connected while the
\* message was in flight, on the origin node and on every peer node, unless
\* that client or the sender disconnects, or a replica loses its connection
\* to Redis, first.
C1_FanOutCompleteness ==
  \A c \in Clients : \A d \in Clients \ {c} :
    (pc[c] = "sent" /\ at[d] # NoNode /\ \A n \in Nodes : link[n])
      ~> (HasMsgFrom(d, c) \/ at[d] = NoNode \/ at[c] = NoNode
            \/ \E n \in Nodes : ~link[n])

\* C2 (self-delivery policy): the servers broadcast with io.emit, which does
\* not exclude the origin connection, so once the server has handled the
\* message of connection c, exactly one copy of it has been emitted to c.
C2_SelfDelivery ==
  \A c \in Clients : pc[c] = "done" => OwnCopies(c) = 1

\* C4 (degraded-mode local continuity): a message sent while the sender's
\* node cannot reach Redis is eventually read by every other client connected
\* to that node, unless one of the two disconnects or Redis is reached again
\* first.
C4_LocalContinuity ==
  \A c \in Clients : \A d \in Clients \ {c} :
    (pc[c] = "sent" /\ at[d] = at[c] /\ ~link[at[c]])
      ~> (HasMsgFrom(d, c) \/ at[d] = NoNode \/ at[c] = NoNode
            \/ (at[c] # NoNode /\ link[at[c]]))

\* C3 (per-origin FIFO): on every connection, the events of one origin node
\* appear in the order that node emitted them (increasing emission number),
\* and the envelopes of one origin in flight to a replica are in that order
\* too.  Events of different origins are not compared.
C3_PerOriginFIFO ==
  /\ \A c \in Clients : \A i \in DOMAIN Delivered(c) : \A j \in DOMAIN Delivered(c) :
        (i < j /\ Delivered(c)[i].origin = Delivered(c)[j].origin)
          => Delivered(c)[i].seq < Delivered(c)[j].seq
  /\ \A n \in Nodes : \A i \in DOMAIN inbox[n] : \A j \in DOMAIN inbox[n] :
        (i < j /\ inbox[n][i].origin = inbox[n][j].origin)
          => inbox[n][i].seq < inbox[n][j].seq

\* A client of one replica has read two events of the other replica.
C3_Witness ==
  \E c \in Clients : \E n \in Nodes :
    /\ at[c] \in Nodes \ {n}
    /\ Len(received[c]) >= 2
    /\ received[c][1].origin = n
    /\ received[c][2].origin = n

\* C5 (no duplication across an outage): whatever the sequence of Redis
\* disconnects and reconnects, no connection is given the same envelope
\* (origin node and emission number) twice.
C5_NoDuplication ==
  \A c \in Clients : \A i \in DOMAIN Delivered(c) : \A j \in DOMAIN Delivered(c) :
    i # j => Delivered(c)[i] # Delivered(c)[j]

\* A client of one replica has read an event of the other replica while
\* that replica, cut off from Redis, holds a later event of its own.
C5_Witness ==
  \E c \in Clients : \E n \in Nodes :
    /\ at[c] \in Nodes \ {n}
    /\ ~link[n]
    /\ offline[n] # <<>>
    /\ \E i \in DOMAIN received[c] : received[c][i].origin = n

\* C6 (affinity): a connection lives on the node the client's cookie names;
\* a request bearing a cookie whose node is running is routed to that node;
\* and a cookie is re-bound only when the node it names is not running.
C6_Affinity ==
  [][\A c \in Clients :
       /\ at'[c] # NoNode => at'[c] = cookie'[c]
       /\ (cookie[c] # NoNode /\ up[cookie[c]] /\ at[c] = NoNode /\ at'[c] # NoNode)
            => at'[c] = cookie[c]
       /\ (cookie[c] # NoNode /\ cookie'[c] # cookie[c]) => ~up[cookie[c]]]_vars

\* Both replicas run, a client that holds a cookie is disconnected and the
\* other client is served by the other replica: the reconnect has a choice.
C6_Witness ==
  \E c \in Clients : \E d \in Clients \ {c} :
    /\ \A n \in Nodes : up[n]
    /\ cookie[c] # NoNode
    /\ at[c] = NoNode
    /\ at[d] \in Nodes \ {cookie[c]}
    /\ pc[d] = "sent"

HealthEvents == {HealthEvent(n, k) : n \in Nodes, k \in 1..MaxTicks}

\* Event e is an element of sequence q.
InSeq(e, q) == \E i \in DOMAIN q : q[i] = e

\* Event e is on its way to connected client c: emitted to c's connection,
\* or pushed by Redis to c's replica, which is not e's origin.
InFlightTo(c, e) ==
  /\ at[c] \in Nodes
  /\ \/ InSeq(e, outq[c])
     \/ e.origin # at[c] /\ InSeq(e, inbox[at[c]])

\* C7 (node-authored broadcast reaches the cluster): while every replica is
\* connected to Redis, a health tick puts its event on every connection of
\* the ticking replica and hands it to every other replica; an event on its
\* way to a connected client is eventually read by it, unless the client
\* disconnects first; and no connection is given the same event twice.
C7_HealthBroadcast ==
  /\ [][\A n \in Nodes :
          ticks'[n] # ticks[n] =>
            /\ \A c \in Clients :
                 at[c] = n => outq'[c] = Append(outq[c], HealthEvent(n, ticks'[n]))
            /\ \A m \in Nodes \ {n} :
                 inbox'[m] = Append(inbox[m], HealthEvent(n, ticks'[n]))]_vars
  /\ \A c \in Clients : \A e \in HealthEvents :
       InFlightTo(c, e) ~> (InSeq(e, received[c]) \/ at[c] = NoNode)
  /\ [](\A c \in Clients : \A e \in HealthEvents :
          Cardinality({i \in DOMAIN Delivered(c) : Delivered(c)[i] = e}) <= 1)

\* A client of each replica has read the same health event.
C7_Witness ==
  \E c \in Clients : \E d \in Clients : \E e \in HealthEvents :
    /\ at[c] = e.origin
    /\ at[d] \in Nodes \ {e.origin}
    /\ InSeq(e, received[c])
    /\ InSeq(e, received[d])

\* C8 (unknown connection identifier): unregister, subscribe and unsubscribe
\* of an identifier the registry does not hold return NotFound, leave the
\* registry as it was and leave the node's health state as it was.
C8_UnknownIdNotFound ==
  [][\A id \in Clients :
       (/\ lastOp' # lastOp
        /\ lastOp'.id = id
        /\ lastOp'.op \in {"unregister", "subscribe", "unsubscribe"}
        /\ ~registry[id].registered)
         => (/\ lastOp'.result = "NotFound"
             /\ registry' = registry
             /\ nodeHealth' = nodeHealth)]_vars

\* An operation on an unknown identifier has returned NotFound while the
\* registry holds another connection with a subscription.
C8_Witness ==
  /\ lastOp.result = "NotFound"
  /\ ~registry[lastOp.id].registered
  /\ \E id \in Clients : registry[id].registered /\ registry[id].topics # {}

\* C9 (traversal consistency): no connection is visited twice; a connection
\* that fn is running on is registered and subscribed to the topic (it is
\* not removed half-way through its visit); and when the traversal returns,
\* every connection that was registered and subscribed to the topic from its
\* start to its end has been visited exactly once, and none but connections
\* of its starting set have been visited.
C9_TraversalConsistency ==
  /\ \A id \in Clients : trav.visits[id] <= 1
  /\ trav.cur # NoConn => Subscribed(registry, trav.cur, trav.topic)
  /\ \A id \in Clients : trav.visits[id] = 1 => id \in trav.snapshot
  /\ trav.phase = "done" => \A id \in trav.stable : trav.visits[id] = 1

\* A traversal has returned having visited one connection and skipped
\* another that was unregistered while it ran.
C9_Witness ==
  /\ trav.phase = "done"
  /\ \E id \in trav.stable : trav.visits[id] = 1
  /\ \E id \in trav.snapshot \ trav.stable :
       ~registry[id].registered /\ trav.visits[id] = 0

\* The last element of a non-empty sequence.
Last(q) == q[Len(q)]

\* The connections replica n holds.
LocalConnections(n) == {c \in Clients : at[c] = n}

\* What a step in which replica n ticks has emitted: the event at the end of
\* each of its connections' queues and of each subscribed replica's inbox.
Emitted(n) ==
  {Last(outq'[c]) : c \in LocalConnections(n)}
    \cup {Last(inbox'[m]) : m \in {x \in Nodes : link[n] /\ link[x]}}

C12_SelfOriginDiscard ==
  [][/\ \A n \in Nodes :
         (inbox[n] # <<>> /\ inbox'[n] = Tail(inbox[n])) =>
           IF Head(inbox[n]).origin = n
           THEN outq' = outq
           ELSE \A c \in Clients :
                  outq'[c] = IF at[c] = n THEN Append(outq[c], Head(inbox[n])) ELSE outq[c]
     /\ \A c \in Clients :
         (at[c] \in Nodes /\ at'[c] = at[c] /\ Len(outq'[c]) > Len(outq[c])) =>
           ~InSeq(Last(outq'[c]), Delivered(c))]_vars

\* A replica has handled the echo of an event of its own: a client of that
\* replica and a client of the other replica have both read the event, and
\* the replica's inbox is empty.
C12_Witness ==
  \E c \in Clients : \E d \in Clients : \E k \in 1..MaxTicks :
    /\ at[c] \in Nodes
    /\ at[d] \in Nodes \ {at[c]}
    /\ InSeq(HealthEvent(at[c], k), received[c])
    /\ InSeq(HealthEvent(at[c], k), received[d])
    /\ inbox[at[c]] = <<>>

C14_BoundedBackoff ==
  /\ [](\A n \in Nodes :
          /\ retryDelay[n] >= RECONNECT_BACKOFF_MIN_MS
          /\ retryDelay[n] <= RECONNECT_BACKOFF_MAX_MS)
  /\ [][\A n \in Nodes :
          (~link[n] /\ ~link'[n] /\ ~reachable /\ retryDelay'[n] # retryDelay[n]) =>
            \/ retryDelay'[n] = 2 * retryDelay[n]
            \/ retryDelay'[n] = RECONNECT_BACKOFF_MAX_MS /\ 2 * retryDelay[n] > retryDelay'[n]]_vars
  /\ \A n \in Nodes : (reachable /\ ~link[n]) ~> (link[n] \/ ~reachable)

\* Redis is reachable again, one adapter has its subscription again and the
\* other, whose delay has reached the ceiling, has not yet.
C14_Witness ==
  \E n \in Nodes : \E m \in Nodes \ {n} :
    /\ reachable
    /\ link[n]
    /\ ~link[m]
    /\ retryDelay[m] = RECONNECT_BACKOFF_MAX_MS

C16_LocalDeliveryOrder ==
  [][\A c \in Clients :
       (at[c] \in Nodes /\ at'[c] = at[c]) =>
         /\ Delivered(c)' # Delivered(c) =>
              /\ Len(Delivered(c)') = Len(Delivered(c)) + 1
              /\ SubSeq(Delivered(c)', 1, Len(Delivered(c))) = Delivered(c)
              /\ \A d \in Clients :
                   (at[d] = at[c] /\ at'[d] = at[d]) =>
                     Delivered(d)' = Append(Delivered(d), Last(Delivered(c)'))
         /\ received'[c] # received[c] =>
              /\ outq[c] # <<>>
              /\ received'[c] = Append(received[c], Head(outq[c]))]_vars

\* Two clients of one replica have read the same two events, one of their
\* own replica and one of the other.
C16_Witness ==
  \E c \in Clients : \E d \in Clients \ {c} :
    /\ at[c] \in Nodes
    /\ at[d] = at[c]
    /\ Len(received[c]) >= 2
    /\ received[d] = received[c]
    /\ received[c][1].origin # received[c][2].origin

\* The copies of envelopes there are: given to a connection, in flight from
\* Redis to a replica, or held by a replica's Redis client.
Copies ==
  UNION {{Delivered(c)[i] : i \in DOMAIN Delivered(c)} : c \in Clients}
    \cup UNION {{inbox[n][i] : i \in DOMAIN inbox[n]} : n \in Nodes}
    \cup UNION {{offline[n][i] : i \in DOMAIN offline[n]} : n \in Nodes}

C18_BroadcastPerConnection ==
  \A c \in Clients :
    at[c] = SimpleServer =>
      /\ Len(Delivered(c)) >= 1
      /\ Len(Delivered(c)) <= accepted
      /\ \A i \in DOMAIN Delivered(c) :
           Delivered(c)[i] = BroadcastEvent(accepted - Len(Delivered(c)) + i)

\* A client has read three "broadcast" events: its own and those of the two
\* connections of the other client, whose latest connection has one.
C18_Witness ==
  \E c \in Clients : \E d \in Clients \ {c} :
    /\ at[c] = SimpleServer
    /\ at[d] = SimpleServer
    /\ Len(received[c]) = 3
    /\ Len(Delivered(d)) = 1

C20_TickPeriod ==
  [][/\ \A n \in Nodes :
         /\ \E r \in 0..9 : intervalOffset[n] = (30 + r) * 1000
         /\ intervalOffset[n] >= 30000
         /\ intervalOffset[n] <= 39000
     /\ intervalOffset' = intervalOffset
     /\ \A n \in Nodes :
         ticks'[n] # ticks[n] =>
           /\ ticks'[n] = ticks[n] + 1
           /\ clock = ticks'[n] * intervalOffset[n]
           /\ \A c \in Clients :
                outq'[c] = IF at[c] = n THEN Append(outq[c], HealthEvent(n, ticks'[n]))
                           ELSE outq[c]]_vars

\* A replica whose period is the longest has ticked twice, the second time
\* two periods after its start, and a client has both events queued.
C20_Witness ==
  \E n \in Nodes : \E c \in Clients :
    /\ intervalOffset[n] = 39000
    /\ ticks[n] = 2
    /\ clock = 78000
    /\ at[c] = n
    /\ Len(outq[c]) = 2

====
